---- MODULE Spec2Model ----
(***************************************************************************)
(* Model of FileTransferBLE.ino: the single transfer session (upload /     *)
(* download / delete / list over a BLE command characteristic), its        *)
(* storage (LittleFS) and the two notification channels.                   *)
(*                                                                         *)
(* A command handler (CmdCallbacks::onWrite -> handleCommand) is one       *)
(* action, except the download: startDownload + sendFileInChunks is the    *)
(* one long-running handler (delay(100), delay(20) per chunk) and is split *)
(* at its loop iterations with the position kept in pc.  Commands are      *)
(* serialised by the transport callback, so no command is handled while    *)
(* pc # "idle".  Under Spec the disconnect callback is serialised with the *)
(* commands as well; under SpecAsync it may run between two steps of the   *)
(* download loop.  Under Spec and SpecAsync the storage is healthy (an     *)
(* open of a regular file and a remove succeed; a write is short only when *)
(* the partition is full); under SpecFaulty opens and removes may fail.    *)
(* Commands arrive as parsed values (CmdList, CmdDelete, ...) and as text  *)
(* (onWrite -> handleCommand on a character sequence).  loop() is an       *)
(* action of its own: it runs in another task than the callbacks.          *)
(* SpecCodec takes a chunk of bytes through encodeBase64, written out as   *)
(* base64, and delivers the text to receiveChunk during an upload.         *)
(***************************************************************************)
EXTENDS Integers, Sequences, FiniteSets, TLC

\* ---------------------------------------------------------------- constants

CHUNK_SIZE == 200

\* uint8_t buffer[CHUNK_SIZE + 10] in receiveChunk
DecodeBufLen == CHUNK_SIZE + 10

\* uint8_t and uint16_t wrap.  The uint32_t quantities (sizes, byte counts,
\* transferredBytes * 100) are bounded by the capacity of the partition, which
\* on the 8 MB flash of the board is far below 2^32 / 100, so they never wrap.
UInt8  == 2^8
UInt16 == 2^16

STATE_IDLE        == "STATE_IDLE"
STATE_UPLOADING   == "STATE_UPLOADING"
STATE_DOWNLOADING == "STATE_DOWNLOADING"

\* ------------------------------------------------------------------- bounds

\* LittleFS.totalBytes(): capacity of the partition
TotalBytes == 600

\* the longest of the short byte sequences put through the codec
MaxCodecLen == 3

\* sizes a peer declares in CMD:UPLOAD_START (205: one 210-byte chunk
\* reaches the size before the chunk count does; the last: more than the
\* capacity)
DeclaredSizes == {0, 205, 300, 400, TotalBytes + 100}

\* what a division by zero leaves in a uint8_t when it does not trap: the
\* extreme values stand for any byte
DivZeroValues == {0, UInt8 - 1}

\* a chunk payload: well-formed base64 of len bytes, or malformed text
Payloads ==
    {[ok |-> TRUE, len |-> l] : l \in {0, 100, CHUNK_SIZE, DecodeBufLen, DecodeBufLen + 1}}
        \cup {[ok |-> FALSE, len |-> 0]}

NoPayload == [ok |-> FALSE, len |-> 0]

\* names are sequences of characters, so that startsWith("/"), "/" + name
\* and substring(1) are computed as the code computes them
Slash == "/"
PathA == <<Slash, "a">>
PathB == <<Slash, "b">>
Paths == {PathA, PathB}
NoName == <<>>

\* the command texts handleCommand compares with
CmdListText == <<"C", "M", "D", ":", "L", "I", "S", "T">>
CmdPingText == <<"C", "M", "D", ":", "P", "I", "N", "G">>
DeletePrefix == <<"C", "M", "D", ":", "D", "E", "L", "E", "T", "E", ":">>
UploadStartPrefix ==
    <<"C", "M", "D", ":", "U", "P", "L", "O", "A", "D", "_", "S", "T", "A", "R", "T", ":">>
UploadChunkPrefix ==
    <<"C", "M", "D", ":", "U", "P", "L", "O", "A", "D", "_", "C", "H", "U", "N", "K", ":">>
DownloadPrefix ==
    <<"C", "M", "D", ":", "D", "O", "W", "N", "L", "O", "A", "D", ":">>

\* what a peer writes after CMD:UPLOAD_START: , with and without the colon
\* between the name and the size
UploadArgs ==
    {<<"a", ":", "3", "0", "0">>, <<"b", ":">>,
     <<>>, <<"a">>, <<Slash, "a">>, <<"a", "3", "0", "0">>}

\* texts no branch of handleCommand recognises
OtherCommands ==
    {<<"P", "I", "N", "G">>, CmdPingText \o <<"S">>, CmdListText \o <<":">>,
     SubSeq(UploadStartPrefix, 1, 16)}

\* the command lines a peer writes, as text
RawCommands ==
    {CmdListText, CmdPingText, DeletePrefix \o <<"b">>, DownloadPrefix \o <<"b">>,
     UploadChunkPrefix \o <<"*">>}
        \cup {UploadStartPrefix \o arg : arg \in UploadArgs}
        \cup OtherCommands

\* names a peer sends: with and without the leading slash
InNames == {PathA, <<"a">>, <<"b">>}

\* ------------------------------------------------------------------ storage

NoFile == [size |-> -1, data |-> "none"]

FileOf(size, data) == [size |-> size, data |-> data]

\* the storages the device may boot with
InitStorages ==
    {[p \in Paths |-> IF p = PathA THEN a ELSE b] :
        a \in {NoFile, FileOf(300, "old")},
        b \in {NoFile, FileOf(0, "old"), FileOf(250, "old")}}

\* a File handle that is not open (File::operator bool is false)
Closed == <<>>

VARIABLES
    currentState,      \* TransferState currentState
    currentFilename,   \* String currentFilename
    currentFile,       \* File currentFile: Closed, or the path it is open on
    expectedFileSize,  \* uint32_t
    transferredBytes,  \* uint32_t
    expectedChunks,    \* uint16_t
    receivedChunks,    \* uint16_t
    deviceConnected,   \* bool
    oldDeviceConnected, \* bool: the connection state loop() saw last
    fs,                \* LittleFS: path -> file or NoFile
    pc,                \* position of the download handler: idle, dl_open, dl_loop
    dl,                \* locals of sendFileInChunks
    ev,                \* the last event delivered by the transport
    resp,              \* data-channel messages notified by the current handler
    prog,              \* progress-channel bytes notified by the current handler
    hs,                \* the current (or just ended) upload session, as the peer saw it
    flaky,             \* whether the storage may fail an open or a remove
    codec              \* the peer's chunk: its bytes, their text, what the device decoded

vars == <<currentState, currentFilename, currentFile, expectedFileSize,
          transferredBytes, expectedChunks, receivedChunks, deviceConnected,
          fs, pc, dl, ev, resp, prog, hs, flaky, codec, oldDeviceConnected>>

\* the session fields of the data model (without the handle)
session == <<currentState, currentFilename, expectedFileSize,
             transferredBytes, expectedChunks, receivedChunks>>

dlvars == <<pc, dl>>

\* ----------------------------------------------------------------- messages

Msg(tag, n, m, name) == [tag |-> tag, n |-> n, m |-> m, name |-> name]
Txt(tag) == Msg(tag, 0, 0, NoName)
Num(tag, n) == Msg(tag, n, 0, NoName)

NoDl == [name |-> NoName, open |-> FALSE, pos |-> 0,
         totalSize |-> 0, totalChunks |-> 0, chunkNum |-> 0]

NoHs == [file |-> NoName, size |-> 0, existed |-> FALSE, lens |-> <<>>, msgs |-> <<>>]

Min(a, b) == IF a < b THEN a ELSE b

RECURSIVE SumSeq(_)
SumSeq(s) == IF s = <<>> THEN 0 ELSE Head(s) + SumSeq(Tail(s))

\* ------------------------------------------------------- storage operations

Exists(path) == path \in Paths /\ fs[path] # NoFile

UsedBytes == LET sz(p) == IF fs[p] = NoFile THEN 0 ELSE fs[p].size
             IN  sz(PathA) + sz(PathB)

FreeSpace == TotalBytes - UsedBytes

\* faulty variant: nothing is removed
RemoveNothing(store, path) == store

\* LittleFS.remove
Remove(store, path) ==
    IF path \in Paths THEN [store EXCEPT ![path] = NoFile] ELSE store

\* open(path, "w"): creates or truncates the file
OpenWrite(store, path) == [store EXCEPT ![path] = FileOf(0, "new")]

\* File::write: appends what fits in the free space, returns the count
WriteCount(len) == Min(len, FreeSpace)

AppendTo(store, path, n) ==
    [store EXCEPT ![path] = FileOf(store[path].size + n, "new")]

\* faulty variant: the size of a handle that is not open
SizeOfClosed(store, path) == 0

\* File::size of the file at path (0 for a File that is not open)
SizeOf(store, path) ==
    IF path \in Paths /\ store[path] # NoFile THEN store[path].size ELSE 0

\* faulty variant: close leaves the handle open
CloseFileNoop(h) == h

\* File::close
CloseFile(h) == Closed

\* an event of the transport, with the phase, the session's filename and the
\* free space it found (raw: the event carries the text of its command)
Ev(kind, name, size, payload) ==
    [kind |-> kind, name |-> name, size |-> size, payload |-> payload,
     phase |-> currentState, file |-> currentFilename, free |-> FreeSpace,
     panic |-> FALSE, raw |-> FALSE, text |-> <<>>]

\* ------------------------------------------------------------ pure helpers

StartsWithSlash(name) == Len(name) > 0 /\ name[1] = Slash

\* if (!filename.startsWith("/")) filename = "/" + filename;
WithSlash(name) == IF StartsWithSlash(name) THEN name ELSE <<Slash>> \o name

\* if (cleanName.startsWith("/")) cleanName = cleanName.substring(1);
CleanName(name) == IF StartsWithSlash(name) THEN Tail(name) ELSE name

\* faulty variant: the search starts at the beginning of the string
IndexOfFromStart(s, ch, from) ==
    LET hits == {i \in 0 .. Len(s) - 1 : s[i + 1] = ch}
    IN  IF hits = {} THEN -1 ELSE CHOOSE i \in hits : \A k \in hits : i <= k

\* String::indexOf(ch, from): the first index >= from (counted from 0) that
\* holds ch, -1 when there is none
IndexOf(s, ch, from) ==
    LET hits == {i \in from .. Len(s) - 1 : s[i + 1] = ch}
    IN  IF hits = {} THEN -1 ELSE CHOOSE i \in hits : \A k \in hits : i <= k

\* String::startsWith
StartsWith(s, prefix) == Len(s) >= Len(prefix) /\ SubSeq(s, 1, Len(prefix)) = prefix

\* String::substring(from, to) and substring(from), indices counted from 0
Substring(s, from, to) == SubSeq(s, from + 1, to)

SubstringFrom(s, from) == SubSeq(s, from + 1, Len(s))

Digits == <<"0", "1", "2", "3", "4", "5", "6", "7", "8", "9">>

IsDigit(c) == \E d \in 1 .. 10 : Digits[d] = c

DigitValue(c) == (CHOOSE d \in 1 .. 10 : Digits[d] = c) - 1

\* String::toInt: the number written by the leading digits, 0 when there is
\* none (the texts here carry no sign and no leading blank)
RECURSIVE ToIntFrom(_, _)
ToIntFrom(s, acc) ==
    IF s = <<>> \/ ~IsDigit(Head(s)) THEN acc
    ELSE ToIntFrom(Tail(s), acc * 10 + DigitValue(Head(s)))

ToInt(s) == ToIntFrom(s, 0)

\* faulty variant: the length mbedtls computed, whatever it returned
decodeBase64Unchecked(p, maxLen) == p.len

\* decodeBase64: the decoded length, 0 when mbedtls reports an error
\* (invalid character, or output longer than the buffer)
decodeBase64(p, maxLen) == IF ~p.ok \/ p.len > maxLen THEN 0 ELSE p.len

\* encodeBase64 of bytesRead bytes read from the file
encodeBase64(bytesRead) == [ok |-> TRUE, len |-> bytesRead]

\* faulty variant: the chunk count rounded down
ChunkCountFloor(size) == (size \div CHUNK_SIZE) % UInt16

\* expectedChunks = (fileSize + CHUNK_SIZE - 1) / CHUNK_SIZE, stored in a uint16_t
ChunkCount(size) == ((size + CHUNK_SIZE - 1) \div CHUNK_SIZE) % UInt16

\* ------------------------------------------------------------------ base64

\* base64_enc_map of mbedtls: the character of each 6-bit value
Alphabet ==
    <<"A", "B", "C", "D", "E", "F", "G", "H", "I", "J", "K", "L", "M", "N", "O", "P",
      "Q", "R", "S", "T", "U", "V", "W", "X", "Y", "Z", "a", "b", "c", "d", "e", "f",
      "g", "h", "i", "j", "k", "l", "m", "n", "o", "p", "q", "r", "s", "t", "u", "v",
      "w", "x", "y", "z", "0", "1", "2", "3", "4", "5", "6", "7", "8", "9", "+", "/">>

PadChar == "="

\* base64_dec_map: the value of a character, 64 for '=', 127 for a character
\* outside the alphabet
DecMap(c) ==
    IF c = PadChar THEN 64
    ELSE IF \E i \in 1 .. 64 : Alphabet[i] = c
    THEN (CHOOSE i \in 1 .. 64 : Alphabet[i] = c) - 1
    ELSE 127

EncMap(v) == Alphabet[v + 1]

\* mbedtls_base64_encode: every three bytes give four characters, the last
\* group of one or two bytes is padded with '='
mbedtls_base64_encode(src) ==
    LET n       == Len(src)
        byte(i) == IF i <= n THEN src[i] ELSE 0
    IN  [i \in 1 .. 4 * ((n + 2) \div 3) |->
            LET g  == (i - 1) \div 4
                k  == (i - 1) % 4
                C1 == byte(3 * g + 1)
                C2 == byte(3 * g + 2)
                C3 == byte(3 * g + 3)
            IN  CASE k = 0 -> EncMap(C1 \div 4)
                  [] k = 1 -> EncMap((C1 % 4) * 16 + C2 \div 16)
                  [] k = 2 -> IF 3 * g + 2 > n THEN PadChar
                              ELSE EncMap((C2 % 16) * 4 + C3 \div 64)
                  [] k = 3 -> IF 3 * g + 3 > n THEN PadChar
                              ELSE EncMap(C3 % 64)]

\* encodeBase64 of a buffer: the encoded text up to its terminating NUL (the
\* alphabet has no NUL, so the String holds all of it)
encodeBase64Text(data) == mbedtls_base64_encode(data)

PadCount(src) == Cardinality({i \in 1 .. Len(src) : src[i] = PadChar})

\* first pass of mbedtls_base64_decode: a character outside the alphabet,
\* more than two '=', or a character of the alphabet after a '='.  (White
\* space, which the pass skips, does not occur: onWrite trims the command and
\* the texts here have none inside.)
InvalidCharacter(src) ==
    \/ \E i \in 1 .. Len(src) : DecMap(src[i]) = 127
    \/ PadCount(src) > 2
    \/ \E i \in 1 .. Len(src) :
           /\ src[i] = PadChar
           /\ \E k \in i + 1 .. Len(src) : DecMap(src[k]) < 64

\* second pass: every four characters give 3 bytes, less the number of '='
\* (which the first pass leaves only at the end)
DecodeQuads(src) ==
    LET quads   == Len(src) \div 4
        pads    == PadCount(SubSeq(src, 1, 4 * quads))
        v(i)    == DecMap(src[i]) % 64
        x(g)    == ((v(4 * g + 1) * 64 + v(4 * g + 2)) * 64 + v(4 * g + 3)) * 64
                       + v(4 * g + 4)
    IN  [i \in 1 .. 3 * quads - pads |->
            LET g == (i - 1) \div 3
                k == (i - 1) % 3
            IN  CASE k = 0 -> x(g) \div (UInt8 * UInt8)
                  [] k = 1 -> (x(g) \div UInt8) % UInt8
                  [] k = 2 -> x(g) % UInt8]

\* mbedtls_base64_decode(dst, dlen, &olen, src, slen)
mbedtls_base64_decode(src, dlen) ==
    LET n    == Len(src)
        need == ((n * 6 + 7) \div 8) - PadCount(src)
        out  == DecodeQuads(src)
    IN  IF InvalidCharacter(src)
        THEN [ret |-> "INVALID_CHARACTER", olen |-> 0, dst |-> <<>>]
        ELSE IF n = 0
        THEN [ret |-> "OK", olen |-> 0, dst |-> <<>>]
        ELSE IF dlen < need
        THEN [ret |-> "BUFFER_TOO_SMALL", olen |-> need, dst |-> <<>>]
        ELSE [ret |-> "OK", olen |-> Len(out), dst |-> out]

\* decodeBase64 of a text: the length it returns (0 when ret != 0) and what
\* it left in the buffer
decodeBase64Text(input, maxLen) ==
    LET r == mbedtls_base64_decode(input, maxLen)
    IN  [len |-> IF r.ret # "OK" THEN 0 ELSE r.olen, output |-> r.dst]

\* the payload of CMD:UPLOAD_CHUNK: carrying this text
PayloadOf(text) ==
    LET r == mbedtls_base64_decode(text, Len(text))
    IN  [ok |-> r.ret = "OK", len |-> r.olen]

NoCodec == [stage |-> "none", b |-> <<>>, text |-> <<>>, out |-> <<>>]

\* the byte sequences put through the codec: every sequence of up to
\* MaxCodecLen of these bytes, and two of the length of a chunk or one less
ByteValues == {0, 77, UInt8 - 1}

LongInput(n) == [i \in 1 .. n |-> (i * 37) % UInt8]

CodecInputs ==
    UNION {[1 .. n -> ByteValues] : n \in 0 .. MaxCodecLen}
        \cup {LongInput(n) : n \in {CHUNK_SIZE - 1, CHUNK_SIZE}}

\* uint8_t progress = (transferredBytes * 100) / total
Progress(tb, total) == ((tb * 100) \div total) % UInt8

\* faulty variant: sent whether or not a peer is connected
SentAlways(msgs) == msgs

\* sendResponse / sendProgress: dropped when no peer is connected
Sent(msgs) == IF deviceConnected THEN msgs ELSE <<>>

\* ---------------------------------------------------------------- session

\* faulty variant: only a download in progress refuses a new transfer
BusyDownloadOnly == currentState = STATE_DOWNLOADING

Busy == currentState # STATE_IDLE

resetTransferState ==
    /\ currentFile' = CloseFile(currentFile)
    /\ currentState' = STATE_IDLE
    /\ currentFilename' = NoName
    /\ expectedFileSize' = 0
    /\ transferredBytes' = 0
    /\ expectedChunks' = 0
    /\ receivedChunks' = 0

SessionUnchanged ==
    UNCHANGED <<currentState, currentFilename, currentFile, expectedFileSize,
                transferredBytes, expectedChunks, receivedChunks>>

\* a command is delivered only by a connected peer, and only when the
\* previous handler has returned
CmdReady == deviceConnected /\ pc = "idle"

\* hs describes the session in progress; it is forgotten when a handler
\* starts with no session in progress
HsKept == IF currentState = STATE_UPLOADING THEN hs ELSE NoHs

Init ==
    /\ currentState = STATE_IDLE
    /\ currentFilename = NoName
    /\ currentFile = Closed
    /\ expectedFileSize = 0
    /\ transferredBytes = 0
    /\ expectedChunks = 0
    /\ receivedChunks = 0
    /\ deviceConnected = FALSE
    /\ oldDeviceConnected = FALSE
    /\ fs \in InitStorages
    /\ pc = "idle"
    /\ dl = NoDl
    /\ ev = [kind |-> "BOOT", name |-> NoName, size |-> 0, payload |-> NoPayload,
             phase |-> STATE_IDLE, file |-> NoName, free |-> 0, panic |-> FALSE,
             raw |-> FALSE, text |-> <<>>]
    /\ resp = <<>>
    /\ prog = <<>>
    /\ hs = NoHs

\* a storage on which an open of a regular file and a remove always succeed
InitHealthy == Init /\ flaky = FALSE /\ codec = NoCodec

\* a storage that may fail them (open returns a closed File, remove false)
InitFaulty == Init /\ flaky = TRUE /\ codec = NoCodec

\* what an open or a remove may return
Outcomes == IF flaky THEN BOOLEAN ELSE {TRUE}

\* ---------------------------------------------------------- BLE callbacks

onConnect ==
    /\ ~deviceConnected
    /\ deviceConnected' = TRUE
    /\ ev' = Ev("CONNECT", NoName, 0, NoPayload)
    /\ UNCHANGED <<fs, pc, dl, resp, prog, hs, flaky, codec, oldDeviceConnected>>
    /\ SessionUnchanged

\* faulty variants: the interrupted file is never removed / always removed
RemoveOnAbortNever == FALSE

RemoveOnAbortAlways == Exists(currentFilename)

\* the partial file is removed when an upload is interrupted
RemoveOnAbort == currentState = STATE_UPLOADING /\ Exists(currentFilename)

onDisconnect ==
    /\ deviceConnected
    /\ deviceConnected' = FALSE
    /\ ev' = Ev("DISCONNECT", NoName, 0, NoPayload)
    /\ IF currentState # STATE_IDLE
       THEN /\ fs' = IF RemoveOnAbort THEN Remove(fs, currentFilename) ELSE fs
            /\ resetTransferState
       ELSE /\ fs' = fs
            /\ SessionUnchanged
    /\ UNCHANGED <<pc, dl, resp, prog, hs, flaky, codec, oldDeviceConnected>>

\* ------------------------------------------------------------ handlers

Reply(msgs, progs) ==
    /\ resp' = Sent(msgs)
    /\ prog' = Sent(progs)

\* a handler that answers and changes neither the session nor the storage
Reject(msgs) ==
    /\ Reply(msgs, <<>>)
    /\ hs' = HsKept
    /\ fs' = fs
    /\ SessionUnchanged

\* faulty variant: the size is compared with the capacity, not the free space
SpaceOkCapacity(fileSize) == ~(fileSize > TotalBytes)

\* if (fileSize > freeSpace) ... NO_SPACE
SpaceOk(fileSize) == ~(fileSize > FreeSpace)

startUpload(name, fileSize, openOk) ==
    LET filename == WithSlash(name)
        cleared  == IF Exists(filename) THEN Remove(fs, filename) ELSE fs
    IN  IF Busy
        THEN Reject(<<Txt("ERROR:TRANSFER_IN_PROGRESS")>>)
        ELSE IF ~SpaceOk(fileSize)
        THEN Reject(<<Txt("ERROR:NO_SPACE")>>)
        ELSE IF ~openOk \/ filename \notin Paths
        THEN /\ fs' = cleared
             /\ Reply(<<Txt("ERROR:CREATE_FAILED")>>, <<>>)
             /\ hs' = HsKept
             /\ SessionUnchanged
        ELSE /\ fs' = OpenWrite(cleared, filename)
             /\ currentFile' = filename
             /\ currentState' = STATE_UPLOADING
             /\ currentFilename' = filename
             /\ expectedFileSize' = fileSize
             /\ transferredBytes' = 0
             /\ expectedChunks' = ChunkCount(fileSize)
             /\ receivedChunks' = 0
             /\ Reply(<<Txt("OK:UPLOAD_READY")>>, <<0>>)
             /\ hs' = [file |-> filename, size |-> fileSize, existed |-> Exists(filename),
                       lens |-> <<>>, msgs |-> Sent(<<Txt("OK:UPLOAD_READY")>>)]

\* faulty variant: completion by the chunk count alone
UploadDoneByCount(rc, tb) == rc >= expectedChunks

\* if (receivedChunks >= expectedChunks || transferredBytes >= expectedFileSize)
UploadDone(rc, tb) == rc >= expectedChunks \/ tb >= expectedFileSize

\* if (receivedChunks % 10 == 0 || receivedChunks >= expectedChunks)
UploadProgressDue(rc) == rc % 10 = 0 \/ rc >= expectedChunks

\* faulty variant: the chunk is numbered before it is counted
NextChunkStale == receivedChunks

\* receivedChunks++ (a uint16_t)
NextChunk == (receivedChunks + 1) % UInt16

\* receiveChunk from "transferredBytes += written" on, with the value the
\* division at line 531 produced
chunkAccepted(written, progress) ==
    LET tb     == transferredBytes + written
        rc     == NextChunk
        stored == AppendTo(fs, currentFilename, written)
        actual == SizeOf(stored, currentFilename)
        ack    == <<Num("ACK", rc)>>
        pr     == IF UploadProgressDue(rc) THEN <<progress>> ELSE <<>>
        fin    == IF actual = expectedFileSize
                  THEN <<Num("OK:UPLOAD_COMPLETE", actual)>>
                  ELSE <<Num("WARNING:SIZE_MISMATCH", actual)>>
        pfin   == IF actual = expectedFileSize THEN <<100>> ELSE <<>>
    IN  /\ fs' = stored
        /\ IF UploadDone(rc, tb)
           THEN /\ Reply(ack \o fin, pr \o pfin)
                /\ hs' = [hs EXCEPT !.lens = @ \o <<written>>,
                                    !.msgs = @ \o Sent(ack \o fin)]
                /\ resetTransferState
           ELSE /\ Reply(ack, pr)
                /\ hs' = [hs EXCEPT !.lens = @ \o <<written>>,
                                    !.msgs = @ \o Sent(ack)]
                /\ transferredBytes' = tb
                /\ receivedChunks' = rc
                /\ UNCHANGED <<currentState, currentFilename, currentFile,
                               expectedFileSize, expectedChunks>>

\* the integer division by zero at line 531 traps: the device restarts with
\* its globals re-initialised; the bytes written through the unflushed handle
\* may or may not have reached the storage
panic(written) ==
    /\ \E kept \in {0, written} :
           fs' = [fs EXCEPT ![currentFilename] = FileOf(kept, "new")]
    /\ currentFile' = Closed
    /\ currentState' = STATE_IDLE
    /\ currentFilename' = NoName
    /\ expectedFileSize' = 0
    /\ transferredBytes' = 0
    /\ expectedChunks' = 0
    /\ receivedChunks' = 0
    /\ resp' = <<>>
    /\ prog' = <<>>
    /\ hs' = [hs EXCEPT !.lens = @ \o <<written>>]

receiveChunk(p) ==
    IF currentState # STATE_UPLOADING
    THEN Reject(<<Txt("ERROR:NOT_UPLOADING")>>) /\ UNCHANGED deviceConnected
         /\ ev' = Ev("UPLOAD_CHUNK", NoName, 0, p)
    ELSE LET decodedLen == decodeBase64(p, DecodeBufLen)
             written    == WriteCount(decodedLen)
         IN  IF decodedLen = 0
             THEN Reject(<<Txt("ERROR:DECODE_FAILED")>>) /\ UNCHANGED deviceConnected
                  /\ ev' = Ev("UPLOAD_CHUNK", NoName, 0, p)
             ELSE IF written # decodedLen
             THEN /\ fs' = Remove(fs, currentFilename)
                  /\ resetTransferState
                  /\ Reply(<<Txt("ERROR:WRITE_FAILED")>>, <<>>)
                  /\ hs' = [hs EXCEPT !.msgs = @ \o Sent(<<Txt("ERROR:WRITE_FAILED")>>)]
                  /\ UNCHANGED deviceConnected
                  /\ ev' = Ev("UPLOAD_CHUNK", NoName, 0, p)
             ELSE IF expectedFileSize = 0
             THEN \/ /\ panic(written)
                     /\ deviceConnected' = FALSE
                     /\ ev' = [Ev("UPLOAD_CHUNK", NoName, 0, p) EXCEPT !.panic = TRUE]
                  \/ /\ \E q \in DivZeroValues : chunkAccepted(written, q)
                     /\ UNCHANGED deviceConnected
                     /\ ev' = Ev("UPLOAD_CHUNK", NoName, 0, p)
             ELSE /\ chunkAccepted(written, Progress(transferredBytes + written,
                                                     expectedFileSize))
                  /\ UNCHANGED deviceConnected
                  /\ ev' = Ev("UPLOAD_CHUNK", NoName, 0, p)

\* faulty variant: only a download protects its file
InUseDownloadOnly(filename) ==
    currentState = STATE_DOWNLOADING /\ currentFilename = filename

\* the file is in use by the session in progress
InUse(filename) == currentState # STATE_IDLE /\ currentFilename = filename

deleteFile(name, removeOk) ==
    LET filename == WithSlash(name)
    IN  IF ~Exists(filename)
        THEN Reject(<<Txt("ERROR:FILE_NOT_FOUND")>>)
        ELSE IF InUse(filename)
        THEN Reject(<<Txt("ERROR:FILE_IN_USE")>>)
        ELSE IF removeOk
        THEN /\ fs' = Remove(fs, filename)
             /\ Reply(<<Txt("OK:DELETED")>>, <<>>)
             /\ hs' = HsKept
             /\ SessionUnchanged
        ELSE Reject(<<Txt("ERROR:DELETE_FAILED")>>)

\* faulty variant: the listing stops after the first file
FileLinesFirst ==
    LET line(p) == IF fs[p] = NoFile THEN <<>>
                   ELSE <<Msg("FILE", fs[p].size, 0, CleanName(p))>>
    IN  IF line(PathA) # <<>> THEN line(PathA) ELSE line(PathB)

\* the FILE lines of listFiles, in directory order
FileLines ==
    LET line(p) == IF fs[p] = NoFile THEN <<>>
                   ELSE <<Msg("FILE", fs[p].size, 0, CleanName(p))>>
    IN  line(PathA) \o line(PathB)

listFiles ==
    Reject(<<Txt("FILES_START")>> \o FileLines \o <<Num("FILES_END", Len(FileLines))>>)

\* --------------------------------------------------------------- download

\* startDownload up to the call of sendFileInChunks
startDownload(name, openOk) ==
    LET filename == WithSlash(name)
        fileSize == SizeOf(fs, filename)
    IN  IF Busy
        THEN Reject(<<Txt("ERROR:TRANSFER_IN_PROGRESS")>>) /\ UNCHANGED dlvars
        ELSE IF ~Exists(filename)
        THEN Reject(<<Txt("ERROR:FILE_NOT_FOUND")>>) /\ UNCHANGED dlvars
        ELSE IF ~openOk
        THEN Reject(<<Txt("ERROR:OPEN_FAILED")>>) /\ UNCHANGED dlvars
        ELSE /\ currentState' = STATE_DOWNLOADING
             /\ currentFilename' = filename
             /\ expectedFileSize' = fileSize
             /\ transferredBytes' = 0
             /\ Reply(<<Msg("DOWNLOAD_START", fileSize, 0, CleanName(filename))>>, <<>>)
             /\ pc' = "dl_open"
             /\ dl' = [NoDl EXCEPT !.name = filename]
             /\ hs' = HsKept
             /\ UNCHANGED <<fs, currentFile, expectedChunks, receivedChunks>>

\* sendResponse / sendProgress inside the running download handler
Emit(msgs, progs) ==
    /\ resp' = resp \o Sent(msgs)
    /\ prog' = prog \o Sent(progs)

DlFrame == UNCHANGED <<deviceConnected, fs, ev, hs, flaky, codec, oldDeviceConnected>>

\* sendFileInChunks, lines 628-640: open the file, size it, progress 0
dlOpen(openOk) ==
    /\ pc = "dl_open"
    /\ IF ~openOk
       THEN /\ Emit(<<Txt("ERROR:FILE_OPEN_FAILED")>>, <<>>)
            /\ resetTransferState
            /\ pc' = "idle"
            /\ dl' = NoDl
       ELSE /\ Emit(<<>>, <<0>>)
            /\ pc' = "dl_loop"
            /\ dl' = [dl EXCEPT !.open = TRUE,
                                !.pos = 0,
                                !.totalSize = SizeOf(fs, dl.name),
                                !.totalChunks = ChunkCount(SizeOf(fs, dl.name)),
                                !.chunkNum = 0]
            /\ SessionUnchanged
    /\ DlFrame

\* file.available()
Available == SizeOf(fs, dl.name) - dl.pos

\* faulty variant: a full chunk is taken whatever is left
BytesReadFull == CHUNK_SIZE

\* file.read(buffer, CHUNK_SIZE)
BytesRead == Min(CHUNK_SIZE, Available)

\* if (chunkNum % 5 == 0 || chunkNum >= totalChunks)
DownloadProgressDue(cn) == cn % 5 = 0 \/ cn >= dl.totalChunks

\* one iteration of the while loop, lines 644-667
dlChunk ==
    /\ pc = "dl_loop"
    /\ Available > 0
    /\ LET bytesRead == BytesRead
           tb        == transferredBytes + bytesRead
           cn        == (dl.chunkNum + 1) % UInt16
           progress  == Progress(tb, dl.totalSize)
       IN  /\ Emit(<<Msg("CHUNK", dl.chunkNum, encodeBase64(bytesRead).len, NoName)>>,
                   IF DownloadProgressDue(cn) THEN <<progress>> ELSE <<>>)
           /\ transferredBytes' = tb
           /\ dl' = [dl EXCEPT !.pos = @ + bytesRead, !.chunkNum = cn]
    /\ UNCHANGED <<pc, currentState, currentFilename, currentFile,
                   expectedFileSize, expectedChunks, receivedChunks>>
    /\ DlFrame

\* faulty variant: the end of the loop leaves the session as it is
dlEndNoReset ==
    /\ pc = "dl_loop"
    /\ ~(Available > 0)
    /\ Emit(<<Num("DOWNLOAD_END", transferredBytes)>>, <<100>>)
    /\ SessionUnchanged
    /\ pc' = "idle"
    /\ dl' = NoDl
    /\ DlFrame

\* loop exit, lines 669-677
dlEnd ==
    /\ pc = "dl_loop"
    /\ ~(Available > 0)
    /\ Emit(<<Num("DOWNLOAD_END", transferredBytes)>>, <<100>>)
    /\ resetTransferState
    /\ pc' = "idle"
    /\ dl' = NoDl
    /\ DlFrame

\* ------------------------------------------------- commands (handleCommand)

CmdFrame == UNCHANGED <<deviceConnected, pc, dl, flaky, codec, oldDeviceConnected>>

CmdList ==
    /\ CmdReady
    /\ ev' = Ev("LIST", NoName, 0, NoPayload)
    /\ listFiles
    /\ CmdFrame

CmdDelete(name, removeOk) ==
    /\ CmdReady
    /\ ev' = Ev("DELETE", name, 0, NoPayload)
    /\ deleteFile(name, removeOk)
    /\ CmdFrame

CmdUploadStart(name, fileSize, openOk) ==
    /\ CmdReady
    /\ ev' = Ev("UPLOAD_START", name, fileSize, NoPayload)
    /\ startUpload(name, fileSize, openOk)
    /\ CmdFrame

\* CMD:UPLOAD_CHUNK:<payload>
uploadChunk(p) ==
    /\ CmdReady
    /\ receiveChunk(p)
    /\ oldDeviceConnected' = IF ev'.panic THEN FALSE ELSE oldDeviceConnected
    /\ UNCHANGED <<pc, dl, flaky>>

CmdUploadChunk(p) == uploadChunk(p) /\ UNCHANGED codec

CmdDownload(name, openOk) ==
    /\ CmdReady
    /\ ev' = Ev("DOWNLOAD", name, 0, NoPayload)
    /\ startDownload(name, openOk)
    /\ UNCHANGED <<deviceConnected, flaky, codec, oldDeviceConnected>>

CmdPing ==
    /\ CmdReady
    /\ ev' = Ev("PING", NoName, 0, NoPayload)
    /\ Reject(<<Txt("PONG")>>)
    /\ CmdFrame

CmdUnknown ==
    /\ CmdReady
    /\ ev' = Ev("UNKNOWN", NoName, 0, NoPayload)
    /\ Reject(<<Txt("ERROR:UNKNOWN_COMMAND")>>)
    /\ CmdFrame

\* an event that carries the text of its command
RawEv(kind, name, size, command) ==
    [Ev(kind, name, size, NoPayload) EXCEPT !.raw = TRUE, !.text = command]

\* handleCommand on the text of a command; ok is what the open or the
\* remove of the handler it calls returns
handleCommand(command, ok) ==
    IF command = CmdListText
    THEN /\ ev' = RawEv("LIST", NoName, 0, command)
         /\ listFiles
         /\ UNCHANGED <<deviceConnected, oldDeviceConnected, pc, dl>>
    ELSE IF StartsWith(command, DeletePrefix)
    THEN LET filename == SubstringFrom(command, 11)
         IN  /\ ev' = RawEv("DELETE", filename, 0, command)
             /\ deleteFile(filename, ok)
             /\ UNCHANGED <<deviceConnected, oldDeviceConnected, pc, dl>>
    ELSE IF StartsWith(command, UploadStartPrefix)
    THEN LET firstColon == IndexOf(command, ":", 17)
             filename   == Substring(command, 17, firstColon)
             fileSize   == ToInt(SubstringFrom(command, firstColon + 1))
         IN  /\ IF firstColon > 0
                THEN /\ ev' = RawEv("UPLOAD_START", filename, fileSize, command)
                     /\ startUpload(filename, fileSize, ok)
                ELSE /\ ev' = RawEv("UPLOAD_INVALID", NoName, 0, command)
                     /\ Reject(<<Txt("ERROR:INVALID_UPLOAD_COMMAND")>>)
             /\ UNCHANGED <<deviceConnected, oldDeviceConnected, pc, dl>>
    ELSE IF StartsWith(command, UploadChunkPrefix)
    THEN /\ receiveChunk(PayloadOf(SubstringFrom(command, 17)))
         /\ oldDeviceConnected' = IF ev'.panic THEN FALSE ELSE oldDeviceConnected
         /\ UNCHANGED <<pc, dl>>
    ELSE IF StartsWith(command, DownloadPrefix)
    THEN LET filename == SubstringFrom(command, 13)
         IN  /\ ev' = RawEv("DOWNLOAD", filename, 0, command)
             /\ startDownload(filename, ok)
             /\ UNCHANGED <<deviceConnected, oldDeviceConnected>>
    ELSE IF command = CmdPingText
    THEN /\ ev' = RawEv("PING", NoName, 0, command)
         /\ Reject(<<Txt("PONG")>>)
         /\ UNCHANGED <<deviceConnected, oldDeviceConnected, pc, dl>>
    ELSE /\ ev' = RawEv("UNKNOWN", NoName, 0, command)
         /\ Reject(<<Txt("ERROR:UNKNOWN_COMMAND")>>)
         /\ UNCHANGED <<deviceConnected, oldDeviceConnected, pc, dl>>

\* CmdCallbacks::onWrite: a command that is not empty goes to handleCommand
\* (the texts carry no blank for trim to remove)
onWrite(command, ok) ==
    /\ CmdReady
    /\ Len(command) > 0
    /\ handleCommand(command, ok)
    /\ UNCHANGED <<flaky, codec>>

Download ==
    \/ \E ok \in Outcomes : dlOpen(ok)
    \/ dlChunk
    \/ dlEnd

Commands ==
    \/ CmdList
    \/ \E n \in InNames, ok \in Outcomes : CmdDelete(n, ok)
    \/ \E n \in InNames, s \in DeclaredSizes, ok \in Outcomes : CmdUploadStart(n, s, ok)
    \/ \E c \in RawCommands, ok \in Outcomes : onWrite(c, ok)
    \/ \E p \in Payloads : CmdUploadChunk(p)
    \/ \E n \in InNames, ok \in Outcomes : CmdDownload(n, ok)
    \/ CmdPing
    \/ CmdUnknown

\* faulty variant: loop() gives up an upload that has stalled
loopWithTimeout ==
    /\ currentState = STATE_UPLOADING
    /\ resetTransferState
    /\ UNCHANGED <<deviceConnected, oldDeviceConnected, fs, pc, dl, ev, resp, prog,
                   hs, flaky, codec>>

\* loop(): notes a change of the connection state (and restarts advertising
\* after a disconnect); it runs in its own task, whatever the handlers do
loop ==
    /\ oldDeviceConnected # deviceConnected
    /\ oldDeviceConnected' = deviceConnected
    /\ UNCHANGED <<deviceConnected, fs, pc, dl, ev, resp, prog, hs, flaky, codec>>
    /\ SessionUnchanged

\* the disconnect callback, delivered between two command handlers
onDisconnectSerial == pc = "idle" /\ onDisconnect

Next ==
    \/ onConnect
    \/ onDisconnectSerial
    \/ Commands
    \/ Download
    \/ loop

NextAsync ==
    \/ onConnect
    \/ onDisconnect
    \/ Commands
    \/ Download
    \/ loop

\* the peer holds a chunk of bytes to be encoded
InitCodec ==
    /\ Init
    /\ flaky = FALSE
    /\ codec \in {[NoCodec EXCEPT !.stage = "input", !.b = b] : b \in CodecInputs}

\* encodeBase64 applied to the chunk
CodecEncode ==
    /\ codec.stage = "input"
    /\ codec' = [codec EXCEPT !.stage = "encoded", !.text = encodeBase64Text(codec.b)]
    /\ UNCHANGED <<currentState, currentFilename, currentFile, expectedFileSize,
                   transferredBytes, expectedChunks, receivedChunks, deviceConnected,
                   oldDeviceConnected, fs, pc, dl, ev, resp, prog, hs, flaky>>

\* the text arrives as CMD:UPLOAD_CHUNK:<text> during an upload
CodecDeliver ==
    /\ codec.stage = "encoded"
    /\ currentState = STATE_UPLOADING
    /\ uploadChunk(PayloadOf(codec.text))
    /\ codec' = [codec EXCEPT !.stage = "delivered",
                              !.out = decodeBase64Text(codec.text, DecodeBufLen).output]

\* the upload the chunk is sent in
CodecUploadStart ==
    /\ codec.stage # "delivered"
    /\ currentState = STATE_IDLE
    /\ \E s \in DeclaredSizes : CmdUploadStart(PathA, s, TRUE)

NextCodec ==
    \/ onConnect
    \/ CodecUploadStart
    \/ CodecEncode
    \/ CodecDeliver

\* commands and disconnects serialised, healthy storage
Spec == InitHealthy /\ [][Next]_vars

\* the disconnect callback may run between two steps of the download handler
SpecAsync == InitHealthy /\ [][NextAsync]_vars

\* commands and disconnects serialised, storage that may fail
SpecFaulty == InitFaulty /\ [][Next]_vars

\* storage that may fail, disconnect at any point of a download, and a
\* download handler that, once called, goes on running: it only sleeps in
\* delay() between its steps and waits for nothing from the peer
SpecLive == InitFaulty /\ [][NextAsync]_vars /\ WF_vars(Download)

\* a chunk taken through encodeBase64 and delivered to receiveChunk
SpecCodec == InitCodec /\ [][NextCodec]_vars

\* ================================================================== claims

\* the session is idle with every field at its reset value and no handle open
SessionIdle ==
    /\ currentState = STATE_IDLE
    /\ currentFilename = NoName
    /\ currentFile = Closed
    /\ expectedFileSize = 0
    /\ transferredBytes = 0
    /\ expectedChunks = 0
    /\ receivedChunks = 0

\* the step is a turn of loop(), not a callback of the transport
LoopStep ==
    /\ oldDeviceConnected' # oldDeviceConnected
    /\ deviceConnected' = deviceConnected

\* the step is the handler of a command of one of these kinds
CommandStep(kinds) ==
    pc = "idle" /\ deviceConnected /\ ~LoopStep /\ ev'.kind \in kinds

\* the step is the disconnect callback
DisconnectStep == deviceConnected /\ ~deviceConnected' /\ ev'.kind = "DISCONNECT"

\* ceil(S / C), computed without the code's counters
Ceil(S) == (S + CHUNK_SIZE - 1) \div CHUNK_SIZE

\* C1 (State exclusivity): whenever a Start-upload or Start-download command
\* is handled while the phase is not Idle, the only response is
\* ERROR:TRANSFER_IN_PROGRESS and phase, filename, expected size, transferred
\* bytes and both chunk counts stay as they were; the phase becomes Uploading
\* or Downloading only from Idle.
C1_StateExclusivity ==
    [][ /\ (CommandStep({"UPLOAD_START", "DOWNLOAD"}) /\ currentState # STATE_IDLE)
            => /\ resp' = <<Txt("ERROR:TRANSFER_IN_PROGRESS")>>
               /\ session' = session
        /\ (currentState' # currentState
                /\ currentState' \in {STATE_UPLOADING, STATE_DOWNLOADING})
            => currentState = STATE_IDLE ]_vars

\* C1 witness: a Start-download refused in the middle of an upload
C1_Witness ==
    /\ ev.kind = "DOWNLOAD"
    /\ currentState = STATE_UPLOADING
    /\ transferredBytes > 0
    /\ resp = <<Txt("ERROR:TRANSFER_IN_PROGRESS")>>

\* C2 (Abort cleanup, upload): when the disconnect callback runs while the
\* phase is Uploading, afterwards the storage holds no file at the session's
\* filename and the session is Idle.
C2_UploadAbortCleanup ==
    [][ (DisconnectStep /\ currentState = STATE_UPLOADING)
            => /\ fs'[currentFilename] = NoFile
               /\ SessionIdle' ]_vars

\* C2 witness: a disconnect has interrupted an upload that had replaced an
\* existing file and had stored a chunk; the file is gone
C2_Witness ==
    /\ ev.kind = "DISCONNECT"
    /\ ev.phase = STATE_UPLOADING
    /\ hs.existed
    /\ hs.lens # <<>>
    /\ hs.file = ev.file
    /\ fs[ev.file] = NoFile
    /\ currentState = STATE_IDLE

\* C3 (Abort cleanup, download): a disconnect delivered at any point of a
\* download leaves the storage as it was, as does every step of the download;
\* the disconnect leaves the session Idle, the end of the chunk loop leaves it
\* Idle with every field reset, and no upload session exists while the
\* download handler is running.
C3_DownloadAbortCleanup ==
    [][ /\ (pc # "idle" \/ pc' # "idle") => fs' = fs
        /\ (DisconnectStep /\ pc # "idle") => (currentState' = STATE_IDLE /\ pc' = pc)
        /\ (pc # "idle" /\ pc' = "idle") => SessionIdle'
        /\ pc' # "idle" => (currentState' # STATE_UPLOADING /\ currentFile' = Closed) ]_vars

\* C3 witness: the disconnect came after the first chunk of a download had
\* been sent, and the chunk loop has since run to its end
C3_Witness ==
    /\ ev.kind = "DISCONNECT"
    /\ ev.phase = STATE_DOWNLOADING
    /\ pc = "idle"
    /\ Len(resp) = 2
    /\ resp[2].tag = "CHUNK"
    /\ SessionIdle
    /\ fs[ev.file] # NoFile

\* C4 as stated (Handle/phase invariant): a storage handle of the session
\* (currentFile, or the handle of the chunk loop) is open if and only if the
\* phase is not Idle.
C4_Original ==
    (currentFile # Closed \/ dl.open) <=> (currentState # STATE_IDLE)

\* C4 amended: currentFile is open exactly while the phase is Uploading, and
\* then on the session's file; the phase is Downloading only inside the
\* download handler, which reads through the handle of its chunk loop, open
\* only while that loop runs; with the phase Idle and no handler running no
\* handle is open.
C4_HandlePhase ==
    /\ (currentFile # Closed) <=> (currentState = STATE_UPLOADING)
    /\ currentState = STATE_UPLOADING => currentFile = currentFilename
    /\ currentState = STATE_DOWNLOADING => pc # "idle"
    /\ dl.open => pc = "dl_loop"
    /\ (currentState = STATE_IDLE /\ pc = "idle") => (currentFile = Closed /\ ~dl.open)

\* C4 witness: a download in progress that has sent a chunk, reading through
\* the loop's handle with currentFile closed
C4_Witness ==
    /\ currentState = STATE_DOWNLOADING
    /\ dl.open
    /\ dl.chunkNum > 0
    /\ currentFile = Closed

Finalized ==
    /\ hs.msgs # <<>>
    /\ hs.msgs[Len(hs.msgs)].tag \in {"OK:UPLOAD_COMPLETE", "WARNING:SIZE_MISMATCH"}

\* C6 as stated (Completion bound): an upload of declared size S >= 0 is
\* never still Uploading once ceil(S/C) chunks have been accepted or S bytes
\* have been transferred, and it has finalized only after exactly ceil(S/C)
\* accepted chunks, or fewer with at least S bytes transferred.
C6_CompletionBound ==
    /\ currentState = STATE_UPLOADING
           => (Len(hs.lens) < Ceil(hs.size) /\ SumSeq(hs.lens) < hs.size)
    /\ Finalized
           => /\ currentState = STATE_IDLE
              /\ \/ Len(hs.lens) = Ceil(hs.size)
                 \/ (Len(hs.lens) < Ceil(hs.size) /\ SumSeq(hs.lens) >= hs.size)

\* the chunk lengths of an upload of S bytes in full chunks and a last one
\* carrying the rest
IdealLens(S) ==
    [i \in 1 .. Ceil(S) |->
        IF i < Ceil(S) THEN CHUNK_SIZE ELSE S - CHUNK_SIZE * (Ceil(S) - 1)]

Acks(k) == [i \in 1 .. k |-> Num("ACK", i)]

IsPrefix(a, b) == Len(a) <= Len(b) /\ a = SubSeq(b, 1, Len(a))

\* C7 (Size fidelity): a Start-upload handled in Idle with a declared size
\* within the free space answers OK:UPLOAD_READY and opens the session; an
\* upload of S > 0 bytes whose accepted chunks are the
\* full chunks followed by the rest has answered OK:UPLOAD_READY, ACK:1 ..
\* ACK:k for the k chunks so far and nothing else (but ERROR:WRITE_FAILED, if
\* a chunk of another length then overran the storage); once all ceil(S/C)
\* chunks are in, OK:UPLOAD_COMPLETE:S follows ACK:ceil(S/C), the stored file
\* has size exactly S and the session is Idle.
C7_SizeFidelity ==
    /\ (ev.kind = "UPLOAD_START" /\ ev.phase = STATE_IDLE /\ ev.size <= ev.free)
        => /\ resp = <<Txt("OK:UPLOAD_READY")>>
           /\ hs.size = ev.size
           /\ hs.lens = <<>>
           /\ currentState = STATE_UPLOADING
    /\ (hs.size > 0 /\ IsPrefix(hs.lens, IdealLens(hs.size)))
        => IF Len(hs.lens) = Ceil(hs.size)
           THEN /\ hs.msgs = <<Txt("OK:UPLOAD_READY")>> \o Acks(Ceil(hs.size))
                                 \o <<Num("OK:UPLOAD_COMPLETE", hs.size)>>
                /\ fs[hs.file] # NoFile
                /\ fs[hs.file].size = hs.size
                /\ SessionIdle
           ELSE LET sofar == <<Txt("OK:UPLOAD_READY")>> \o Acks(Len(hs.lens))
                IN  \/ hs.msgs = sofar
                    \/ hs.msgs = sofar \o <<Txt("ERROR:WRITE_FAILED")>>

\* C7 witness: 300 bytes uploaded as chunks of 200 and 100 bytes
C7_Witness ==
    /\ hs.size = 300
    /\ hs.lens = <<200, 100>>
    /\ ev.kind = "UPLOAD_CHUNK"
    /\ currentState = STATE_IDLE

\* what the peer receives for the download of the file at path, of S bytes
ExpectedDownload(path, S) ==
    <<Msg("DOWNLOAD_START", S, 0, Tail(path))>>
        \o [i \in 1 .. Ceil(S) |-> Msg("CHUNK", i - 1, IdealLens(S)[i], NoName)]
        \o <<Num("DOWNLOAD_END", S)>>

\* C8 (Download message order): the messages of a download started from Idle
\* on an existing file of S bytes are DOWNLOAD_START:<name without the
\* slash>:S, then ceil(S/C) CHUNK messages numbered 0, 1, 2, ... whose lengths
\* sum to S, then DOWNLOAD_END:S; while the handler runs they are a proper
\* prefix of that sequence, and when it has returned the session is Idle.
C8_DownloadOrder ==
    (ev.kind = "DOWNLOAD" /\ ev.phase = STATE_IDLE /\ Exists(WithSlash(ev.name)))
        => LET path == WithSlash(ev.name)
               want == ExpectedDownload(path, fs[path].size)
           IN  IF pc = "idle"
               THEN resp = want /\ SessionIdle
               ELSE /\ Len(resp) >= 1
                    /\ Len(resp) < Len(want)
                    /\ IsPrefix(resp, want)
                    /\ currentState = STATE_DOWNLOADING

\* C8 witness: the 300-byte file has been downloaded in two chunks
C8_Witness ==
    /\ ev.kind = "DOWNLOAD"
    /\ pc = "idle"
    /\ Len(resp) = 4
    /\ resp[3].tag = "CHUNK"
    /\ resp[3].m = 100
    /\ resp[4] = Num("DOWNLOAD_END", 300)

\* C9 (Space guard): a Start-upload handled in Idle whose declared size is
\* greater than the free space answers ERROR:NO_SPACE only, opens no handle,
\* leaves the session Idle and every stored file as it was.
C9_SpaceGuard ==
    [][ (CommandStep({"UPLOAD_START"}) /\ currentState = STATE_IDLE
            /\ ev'.size > TotalBytes - UsedBytes)
            => /\ resp' = <<Txt("ERROR:NO_SPACE")>>
               /\ currentFile' = Closed
               /\ SessionIdle'
               /\ fs' = fs ]_vars

\* C9 witness: an upload that the capacity would hold was refused for lack
\* of free space, and the existing file of that name is still stored
C9_Witness ==
    /\ ev.kind = "UPLOAD_START"
    /\ ev.size <= TotalBytes
    /\ ev.size > 0
    /\ resp = <<Txt("ERROR:NO_SPACE")>>
    /\ Exists(WithSlash(ev.name))
    /\ currentState = STATE_IDLE

\* C10 (Delete-in-use guard): a Delete handled while the phase is not Idle
\* that names the session's file, with or without the leading slash, answers
\* ERROR:FILE_IN_USE only, and leaves the storage, the session and its handle
\* as they were.
C10_DeleteInUse ==
    [][ (CommandStep({"DELETE"}) /\ currentState # STATE_IDLE
            /\ currentFilename \in {ev'.name, <<Slash>> \o ev'.name})
            => /\ resp' = <<Txt("ERROR:FILE_IN_USE")>>
               /\ fs' = fs
               /\ fs'[currentFilename] # NoFile
               /\ session' = session
               /\ currentFile' = currentFile ]_vars

\* C10 witness: a Delete naming the file without the slash was refused in
\* the middle of its upload
C10_Witness ==
    /\ ev.kind = "DELETE"
    /\ ev.name = <<"a">>
    /\ currentState = STATE_UPLOADING
    /\ currentFilename = PathA
    /\ transferredBytes > 0
    /\ resp = <<Txt("ERROR:FILE_IN_USE")>>

\* C11 (Codec round-trip): for every byte sequence b of length 0 .. chunk
\* size, once the encoding of b has been delivered to Receive-chunk the
\* response is not ERROR:DECODE_FAILED and the decoded bytes are exactly b.
C11_RoundTrip ==
    codec.stage = "delivered"
        => /\ resp # <<Txt("ERROR:DECODE_FAILED")>>
           /\ codec.out = codec.b

\* the payload cannot be decoded into the buffer of Receive-chunk: it is
\* malformed, or longer than the buffer
Undecodable(p) == ~p.ok \/ p.len > DecodeBufLen

\* C12 (Transient decode fault): when Receive-chunk is handled in phase
\* Uploading with a payload that fails to decode, the only response is
\* ERROR:DECODE_FAILED, no progress byte is sent, the storage and the handle
\* stay as they were, and phase, filename, expected size, transferred bytes
\* and both chunk counts are unchanged; a decodable, non-empty chunk that fits
\* in the free space, sent right after such a fault, is taken into the
\* session as the next chunk.
C12_TransientDecodeFault ==
    [][ /\ (CommandStep({"UPLOAD_CHUNK"}) /\ currentState = STATE_UPLOADING
                /\ Undecodable(ev'.payload))
            => /\ resp' = <<Txt("ERROR:DECODE_FAILED")>>
               /\ prog' = <<>>
               /\ fs' = fs
               /\ currentFile' = currentFile
               /\ session' = session
               /\ hs' = hs
        /\ (CommandStep({"UPLOAD_CHUNK"}) /\ currentState = STATE_UPLOADING
                /\ ev.kind = "UPLOAD_CHUNK" /\ Undecodable(ev.payload)
                /\ ~Undecodable(ev'.payload)
                /\ ev'.payload.len > 0 /\ ev'.payload.len <= FreeSpace)
            => /\ hs'.lens = hs.lens \o <<ev'.payload.len>>
               /\ SizeOf(fs', currentFilename) \in
                      {0, SizeOf(fs, currentFilename) + ev'.payload.len}
               /\ resp' \in {<<>>} \cup {<<Num("ACK", receivedChunks + 1)>> \o fin :
                                fin \in {<<>>,
                                         <<Num("OK:UPLOAD_COMPLETE", expectedFileSize)>>,
                                         <<Num("WARNING:SIZE_MISMATCH",
                                               transferredBytes + ev'.payload.len)>>}} ]_vars

\* C12 witness: a malformed chunk was refused in the middle of an upload,
\* which is still open with the bytes it had
C12_Witness ==
    /\ ev.kind = "UPLOAD_CHUNK"
    /\ ~ev.payload.ok
    /\ ev.phase = STATE_UPLOADING
    /\ resp = <<Txt("ERROR:DECODE_FAILED")>>
    /\ currentState = STATE_UPLOADING
    /\ transferredBytes > 0
    /\ hs.lens # <<>>

\* C13 (Fatal write fault): when Receive-chunk in phase Uploading decodes a
\* chunk and the file takes fewer bytes than were decoded (the partition has
\* less room than the chunk needs), the handle is closed, the partial file
\* is removed, the session is Idle with its filename and counters cleared,
\* and the only message is ERROR:WRITE_FAILED: no ACK, no completion message
\* and no progress byte.
C13_FatalWriteFault ==
    [][ (CommandStep({"UPLOAD_CHUNK"}) /\ currentState = STATE_UPLOADING
            /\ ~Undecodable(ev'.payload)
            /\ ev'.payload.len > TotalBytes - UsedBytes)
            => /\ currentFile' = Closed
               /\ fs'[currentFilename] = NoFile
               /\ \A p \in Paths \ {currentFilename} : fs'[p] = fs[p]
               /\ SessionIdle'
               /\ resp' = <<Txt("ERROR:WRITE_FAILED")>>
               /\ prog' = <<>> ]_vars

\* C13 witness: the second chunk of an upload overran the partition; the
\* file with the first chunk is gone and the session is Idle
C13_Witness ==
    /\ ev.kind = "UPLOAD_CHUNK"
    /\ ev.phase = STATE_UPLOADING
    /\ ev.payload.len > ev.free
    /\ hs.lens # <<>>
    /\ resp = <<Txt("ERROR:WRITE_FAILED")>>
    /\ fs[ev.file] = NoFile
    /\ SessionIdle

\* the step is a Receive-chunk that finalizes the upload: the chunk is
\* decoded and written in full, with it the chunk count or the byte count is
\* reached, and the handler runs to its end
FinalizeStep ==
    /\ CommandStep({"UPLOAD_CHUNK"})
    /\ currentState = STATE_UPLOADING
    /\ ~Undecodable(ev'.payload)
    /\ ev'.payload.len > 0
    /\ ev'.payload.len <= TotalBytes - UsedBytes
    /\ \/ receivedChunks + 1 >= expectedChunks
       \/ transferredBytes + ev'.payload.len >= expectedFileSize
    /\ ~ev'.panic

\* C14 (Upload finalization outcome): when an upload finalizes, the file is
\* kept in storage; after the chunk's ACK the handler reports
\* OK:UPLOAD_COMPLETE:<size> if the stored size equals the expected size and
\* WARNING:SIZE_MISMATCH:<stored size> otherwise, one of the two and only
\* one, and the session is Idle afterwards.
C14_FinalizationOutcome ==
    [][ FinalizeStep
            => LET stored == fs'[currentFilename]
                   fin    == SelectSeq(resp', LAMBDA m : m.tag \in
                                 {"OK:UPLOAD_COMPLETE", "WARNING:SIZE_MISMATCH"})
               IN  /\ stored # NoFile
                   /\ stored.size = SizeOf(fs, currentFilename) + ev'.payload.len
                   /\ Len(resp') = 2
                   /\ resp'[1] = Num("ACK", receivedChunks + 1)
                   /\ Len(fin) = 1
                   /\ (resp'[2].tag = "OK:UPLOAD_COMPLETE")
                          <=> (stored.size = expectedFileSize)
                   /\ resp'[2] = IF stored.size = expectedFileSize
                                 THEN Num("OK:UPLOAD_COMPLETE", expectedFileSize)
                                 ELSE Num("WARNING:SIZE_MISMATCH", stored.size)
                   /\ SessionIdle' ]_vars

\* C14 witness: an upload declared as 205 bytes was finalized by a chunk of
\* 210 bytes: SIZE_MISMATCH:210, the file of 210 bytes kept, session Idle
C14_Witness ==
    /\ ev.kind = "UPLOAD_CHUNK"
    /\ ev.phase = STATE_UPLOADING
    /\ hs.size = 205
    /\ resp = <<Num("ACK", 1), Num("WARNING:SIZE_MISMATCH", DecodeBufLen)>>
    /\ fs[hs.file] = FileOf(DecodeBufLen, "new")
    /\ SessionIdle

\* C15 (Malformed upload start): a command CMD:UPLOAD_START:<text> whose
\* text holds no colon is answered ERROR:INVALID_UPLOAD_COMMAND only, in any
\* phase, and changes neither the session and its handle nor the storage;
\* it opens no upload session.
C15_MalformedUploadStart ==
    [][ (CommandStep({"UPLOAD_START", "UPLOAD_INVALID"}) /\ ev'.raw
            /\ StartsWith(ev'.text, UploadStartPrefix)
            /\ \A i \in Len(UploadStartPrefix) + 1 .. Len(ev'.text) : ev'.text[i] # ":")
            => /\ resp' = <<Txt("ERROR:INVALID_UPLOAD_COMMAND")>>
               /\ prog' = <<>>
               /\ session' = session
               /\ currentFile' = currentFile
               /\ fs' = fs
               /\ hs' = HsKept ]_vars

\* C15 witness: CMD:UPLOAD_START:a300 was refused in the middle of an
\* upload, which goes on
C15_Witness ==
    /\ ev.raw
    /\ ev.text = UploadStartPrefix \o <<"a", "3", "0", "0">>
    /\ ev.phase = STATE_UPLOADING
    /\ resp = <<Txt("ERROR:INVALID_UPLOAD_COMMAND")>>
    /\ currentState = STATE_UPLOADING
    /\ transferredBytes > 0

\* C16 (Progress range): every byte sent on the progress channel, by any
\* upload or download handler, for any declared size and any sequence of
\* chunk lengths, is in 0 .. 100.
C16_ProgressRange ==
    \A i \in 1 .. Len(prog) : prog[i] \in 0 .. 100

\* C17 (Create failure): when a Start-upload handled in Idle passes the
\* space check and is answered ERROR:CREATE_FAILED (the open of the write
\* handle failed), nothing has changed: the session is Idle with its fields
\* as before, no handle is open, and the stored files are the same as before
\* the command.
C17_CreateFailure ==
    [][ (CommandStep({"UPLOAD_START"}) /\ currentState = STATE_IDLE
            /\ ev'.size <= TotalBytes - UsedBytes
            /\ resp' = <<Txt("ERROR:CREATE_FAILED")>>)
            => /\ SessionIdle'
               /\ session' = session
               /\ currentFile' = Closed
               /\ fs' = fs ]_vars

\* C18 (Disconnect is silent and total): a disconnect delivered in any phase
\* (Idle, Uploading, Downloading) leaves the phase Idle and the session's
\* handle closed, with every field reset if a session was open, and sends
\* nothing on the data channel and nothing on the progress channel; nor does
\* any step taken while no peer is connected.
C18_DisconnectSilentTotal ==
    [][ /\ DisconnectStep
            => /\ currentState' = STATE_IDLE
               /\ currentFile' = Closed
               /\ currentState # STATE_IDLE => SessionIdle'
               /\ resp' = resp
               /\ prog' = prog
        /\ (~deviceConnected /\ ~deviceConnected')
            => (resp' = resp /\ prog' = prog) ]_vars

\* C18 witness: the peer went away after the first chunk of a download; the
\* session is Idle, the loop has read a second chunk and sent nothing more
C18_Witness ==
    /\ ev.kind = "DISCONNECT"
    /\ ev.phase = STATE_DOWNLOADING
    /\ ~deviceConnected
    /\ currentState = STATE_IDLE
    /\ currentFile = Closed
    /\ pc = "dl_loop"
    /\ dl.chunkNum = 2
    /\ Len(resp) = 2
    /\ prog = <<0>>

\* the answer to CMD:LIST for a storage: FILES_START, one FILE line for
\* each stored file, with its name without the slash, and FILES_END with
\* the number of FILE lines
ListAnswer(r, store) ==
    LET stored == {p \in Paths : store[p] # NoFile}
    IN  /\ Len(r) = Cardinality(stored) + 2
        /\ r[1] = Txt("FILES_START")
        /\ r[Len(r)] = Num("FILES_END", Len(r) - 2)
        /\ \A i \in 2 .. Len(r) - 1 : r[i].tag = "FILE"
        /\ \A p \in stored : \E i \in 2 .. Len(r) - 1 : r[i].name = Tail(p)

\* the text is none of the commands of the protocol
Unrecognised(t) ==
    /\ t # CmdListText
    /\ t # CmdPingText
    /\ \A prefix \in {DeletePrefix, UploadStartPrefix, UploadChunkPrefix, DownloadPrefix} :
           ~StartsWith(t, prefix)

\* C19 (Read-only commands): in every phase in which a command is handled,
\* CMD:PING is answered with exactly PONG, CMD:LIST with FILES_START, one
\* FILE line per stored file and FILES_END:<number of FILE lines>, and a
\* text that is no command with ERROR:UNKNOWN_COMMAND; each of the three
\* leaves the session fields, the handle and the stored files as they were
\* and sends no progress byte.
C19_ReadOnlyCommands ==
    [][ /\ CommandStep({"PING", "LIST", "UNKNOWN"})
            => /\ session' = session
               /\ currentFile' = currentFile
               /\ fs' = fs
               /\ prog' = <<>>
               /\ ev'.kind = "PING" => resp' = <<Txt("PONG")>>
               /\ ev'.kind = "LIST" => ListAnswer(resp', fs)
               /\ ev'.kind = "UNKNOWN" => resp' = <<Txt("ERROR:UNKNOWN_COMMAND")>>
        /\ (CommandStep({"PING", "LIST", "UNKNOWN", "DELETE", "DOWNLOAD",
                         "UPLOAD_START", "UPLOAD_INVALID"}) /\ ev'.raw)
            => /\ ev'.text = CmdPingText => ev'.kind = "PING"
               /\ ev'.text = CmdListText => ev'.kind = "LIST"
               /\ Unrecognised(ev'.text) => ev'.kind = "UNKNOWN" ]_vars

\* C19 witness: CMD:LIST in the middle of an upload listed the two stored
\* files, one of them the file being uploaded, and the upload goes on
C19_Witness ==
    /\ ev.kind = "LIST"
    /\ ev.raw
    /\ ev.phase = STATE_UPLOADING
    /\ currentState = STATE_UPLOADING
    /\ transferredBytes > 0
    /\ Len(resp) = 4
    /\ resp[4] = Num("FILES_END", 2)

\* the commands other than Receive-chunk
OtherCommandKinds ==
    {"LIST", "DELETE", "PING", "UPLOAD_START", "UPLOAD_INVALID", "DOWNLOAD", "UNKNOWN"}

\* the step is a Receive-chunk whose chunk overruns the storage (write
\* fault) or brings the chunk count or the byte count of the upload to its
\* end (completion)
EndingChunkStep ==
    /\ CommandStep({"UPLOAD_CHUNK"})
    /\ ~Undecodable(ev'.payload)
    /\ ev'.payload.len > 0
    /\ \/ ev'.payload.len > TotalBytes - UsedBytes
       \/ receivedChunks + 1 >= expectedChunks
       \/ transferredBytes + ev'.payload.len >= expectedFileSize

\* C20 (No implicit cancellation): while the phase is Uploading, no command
\* other than Receive-chunk (List, Delete, Ping, Start-upload,
\* Start-download, a malformed or an unknown command) and no turn of loop()
\* changes the phase, any session field or the handle; the phase leaves
\* Uploading only for Idle, and only by a disconnect or by a Receive-chunk
\* that completes the upload or hits a write fault.
C20_NoImplicitCancellation ==
    [][ currentState = STATE_UPLOADING
            => /\ CommandStep(OtherCommandKinds)
                   => (session' = session /\ currentFile' = currentFile)
               /\ LoopStep
                   => (session' = session /\ currentFile' = currentFile /\ fs' = fs)
               /\ currentState' # STATE_UPLOADING
                   => /\ currentState' = STATE_IDLE
                      /\ DisconnectStep \/ EndingChunkStep ]_vars

\* C20 witness: an upload that has stored a chunk is still Uploading after
\* loop() has run and a CMD:PING has been answered
C20_Witness ==
    /\ ev.kind = "PING"
    /\ ev.phase = STATE_UPLOADING
    /\ oldDeviceConnected
    /\ currentState = STATE_UPLOADING
    /\ transferredBytes > 0
    /\ currentFile = currentFilename
    /\ resp = <<Txt("PONG")>>

\* C21 (Download termination): whenever the phase is Downloading, the
\* handler eventually returns with the phase Idle, with no further step of
\* the peer required, whatever the size of the file (0 bytes included); when
\* the file cannot be re-opened the handler returns at once, Idle, its last
\* message to a connected peer being ERROR:FILE_OPEN_FAILED.
C21_DownloadTermination ==
    /\ (currentState = STATE_DOWNLOADING) ~> (currentState = STATE_IDLE /\ pc = "idle")
    /\ [][ (pc = "dl_open" /\ pc' = "idle")
              => /\ currentState' = STATE_IDLE
                 /\ deviceConnected
                        => resp' = resp \o <<Txt("ERROR:FILE_OPEN_FAILED")>> ]_vars

\* C21 witness: the download of the 250-byte file was started, the file
\* could not be re-opened, and the session is Idle again
C21_Witness ==
    /\ ev.kind = "DOWNLOAD"
    /\ pc = "idle"
    /\ resp = <<Msg("DOWNLOAD_START", 250, 0, <<"b">>), Txt("ERROR:FILE_OPEN_FAILED")>>
    /\ SessionIdle

\* the ACK messages among msgs, in order
AcksIn(msgs) == SelectSeq(msgs, LAMBDA m : m.tag = "ACK")

\* C22 (ACK numbering): the ACKs of an upload session are ACK:1, ACK:2, ...
\* in order, as many as the device has counted chunks while the session is
\* open; a Start-upload that opens a session starts it with no ACK, whatever
\* ended the session before; a chunk refused with ERROR:DECODE_FAILED is
\* answered without an ACK and leaves the count as it was; a chunk taken by
\* a handler that runs to its end is answered with one ACK, carrying the
\* number of ACKs of the session so far plus one, and that ACK comes first,
\* before OK:UPLOAD_COMPLETE or WARNING:SIZE_MISMATCH if the chunk is the
\* last.
C22_AckNumbering ==
    /\ [](AcksIn(hs.msgs) = Acks(Len(AcksIn(hs.msgs))))
    /\ [](currentState = STATE_UPLOADING => receivedChunks = Len(AcksIn(hs.msgs)))
    /\ [][ /\ (CommandStep({"UPLOAD_START"}) /\ currentState' = STATE_UPLOADING
                  /\ currentState = STATE_IDLE)
              => (AcksIn(hs'.msgs) = <<>> /\ receivedChunks' = 0)
           /\ (CommandStep({"UPLOAD_CHUNK"}) /\ currentState = STATE_UPLOADING
                  /\ Undecodable(ev'.payload))
              => /\ AcksIn(resp') = <<>>
                 /\ receivedChunks' = receivedChunks
                 /\ AcksIn(hs'.msgs) = AcksIn(hs.msgs)
           /\ (CommandStep({"UPLOAD_CHUNK"}) /\ currentState = STATE_UPLOADING
                  /\ ~Undecodable(ev'.payload) /\ ev'.payload.len > 0
                  /\ ev'.payload.len <= TotalBytes - UsedBytes /\ ~ev'.panic)
              => /\ AcksIn(resp') = <<Num("ACK", Len(AcksIn(hs.msgs)) + 1)>>
                 /\ resp'[1].tag = "ACK"
                 /\ AcksIn(hs'.msgs) = Acks(Len(AcksIn(hs.msgs)) + 1)
                 /\ \A i \in 2 .. Len(resp') :
                        resp'[i].tag \in {"OK:UPLOAD_COMPLETE", "WARNING:SIZE_MISMATCH"} ]_vars

\* C22 witness: an upload declared as 205 bytes took two chunks of 100
\* bytes: ACK:1, then ACK:2 followed by the size warning
C22_Witness ==
    /\ ev.kind = "UPLOAD_CHUNK"
    /\ resp = <<Num("ACK", 2), Num("WARNING:SIZE_MISMATCH", 200)>>
    /\ hs.msgs = <<Txt("OK:UPLOAD_READY"), Num("ACK", 1), Num("ACK", 2),
                   Num("WARNING:SIZE_MISMATCH", 200)>>
    /\ hs.lens = <<100, 100>>
    /\ SessionIdle

====
